---- MODULE Spec2Model ----
(***************************************************************************)
(* HTTPRoute validation of apis/v1beta1/validation (httproute.go):         *)
(* ValidateHTTPRoute, ValidateHTTPRouteSpec, validateHTTPRouteFilters,     *)
(* validateHTTPHeaderMatches and validateHTTPHeaderModifier.               *)
(*                                                                         *)
(* Strings that the code folds or canonicalises (header and query         *)
(* parameter names) are sequences of one-character strings; strings the    *)
(* code only copies (header values, messages) are TLA+ strings.            *)
(***************************************************************************)
EXTENDS Integers, Sequences, FiniteSets, TLC

VARIABLES
    route,      \* the HTTPRoute under validation: [Rules, ParentRefs]
    pc,         \* position in ValidateHTTPRouteSpec: "rules" (in or at the end of the loop), "done"
    idx,        \* loop index i of `for i, rule := range spec.Rules`
    errs,       \* the accumulated field.ErrorList of the running call
    prCalls,    \* arguments of every ValidateParentRefs call of the running call
    mode,       \* "first", or how the caller repeated the call: "same", "extended"
    prev,       \* the list returned by the caller's previous call
    input,      \* argument of a directly called helper
    output,     \* list returned by a directly called helper
    returned    \* whether the directly called helper has returned

vars == <<route, pc, idx, errs, prCalls, mode, prev, input, output, returned>>

routeVars == <<route, pc, idx, errs, prCalls, mode, prev>>
unitVars == <<input, output, returned>>

-----------------------------------------------------------------------------
(* Bounds of the model *)

MaxHeaderMatches == 4
MaxActions == 4
MaxFilters == 3
MaxRules == 2

-----------------------------------------------------------------------------
(* Strings as byte sequences, strings.ToLower and http.CanonicalHeaderKey *)

Lowers == <<"a", "b", "q", "x">>
Uppers == <<"A", "B", "Q", "X">>

ToLowerByte(c) ==
    IF \E k \in 1..Len(Uppers) : Uppers[k] = c
    THEN Lowers[CHOOSE k \in 1..Len(Uppers) : Uppers[k] = c]
    ELSE c

ToUpperByte(c) ==
    IF \E k \in 1..Len(Lowers) : Lowers[k] = c
    THEN Uppers[CHOOSE k \in 1..Len(Lowers) : Lowers[k] = c]
    ELSE c

ToLower(s) == [k \in 1..Len(s) |-> ToLowerByte(s[k])]

\* token bytes of a header field name; any other byte leaves the key as it is
validHeaderFieldByte(c) ==
    \/ \E k \in 1..Len(Lowers) : c = Lowers[k] \/ c = Uppers[k]
    \/ c \in {"-", "1", "2"}

CanonicalHeaderKey(s) ==
    IF \E k \in 1..Len(s) : ~validHeaderFieldByte(s[k])
    THEN s
    ELSE [k \in 1..Len(s) |->
            IF k = 1 \/ s[k - 1] = "-"
            THEN ToUpperByte(s[k])
            ELSE ToLowerByte(s[k])]

-----------------------------------------------------------------------------
(* field.Path and field.Error *)

NewPath(name) == << [name |-> name, index |-> -1] >>
Child(p, name) == Append(p, [name |-> name, index |-> -1])
Index(p, i) == Append(p, [name |-> "", index |-> i])

\* field.Invalid(path, value, detail)
Invalid(path, value, detail) ==
    [Type |-> "FieldValueInvalid", Field |-> path, BadValue |-> value, Detail |-> detail]

StringValue(s) == [str |-> s]
FilterTypeValue(t) == [filterType |-> t]

Nil == [nil |-> TRUE]

RECURSIVE Concat(_)
Concat(ss) == IF ss = <<>> THEN <<>> ELSE Head(ss) \o Concat(Tail(ss))

\* every order in which a Go map with key set S can be ranged over
KeyOrders(S) ==
    {o \in [1..Cardinality(S) -> S] : \A a, b \in 1..Cardinality(S) : o[a] = o[b] => a = b}

-----------------------------------------------------------------------------
(* validateHTTPHeaderMatches *)

MsgHeaderTwice == "cannot match the same header multiple times in the same rule"

\* mutant: the names are counted as given, without strings.ToLower
headerCountsCaseSensitive(matches) ==
    [name \in {matches[k].Name : k \in 1..Len(matches)} |->
        Cardinality({k \in 1..Len(matches) : matches[k].Name = name})]

\* counts[strings.ToLower(string(match.Name))]++ over the matches
headerCounts(matches) ==
    [name \in {ToLower(matches[k].Name) : k \in 1..Len(matches)} |->
        Cardinality({k \in 1..Len(matches) : ToLower(matches[k].Name) = name})]

\* the second loop, ranging over the counts map in the order `order`
validateHTTPHeaderMatches(matches, path, order) ==
    LET counts == headerCounts(matches)
        errOf(name) ==
            IF counts[name] > 1
            THEN << Invalid(path, StringValue(CanonicalHeaderKey(name)), MsgHeaderTwice) >>
            ELSE <<>>
    IN  Concat([k \in 1..Len(order) |-> errOf(order[k])])

HeaderMatchOrders(matches) == KeyOrders(DOMAIN headerCounts(matches))

-----------------------------------------------------------------------------
(* validateHTTPHeaderModifier *)

MsgMultipleActions == "cannot specify multiple actions for header"

\* mutant: the flag is never cleared, so every repeat of a name is reported
headerActionStepEveryRepeat(st, name, value, path) ==
    LET key == ToLower(name)
    IN  IF key \in DOMAIN st.singleAction
        THEN [singleAction |-> st.singleAction,
              errs |-> Append(st.errs, Invalid(path, value, MsgMultipleActions))]
        ELSE [singleAction |-> st.singleAction @@ (key :> TRUE),
              errs |-> st.errs]

\* one iteration of any of the three loops: `name` is the entry's header name,
\* `value` the entry itself, `path` the path of the list being ranged over
headerActionStep(st, name, value, path) ==
    LET key == ToLower(name)
    IN  IF key \in DOMAIN st.singleAction
        THEN [singleAction |-> [st.singleAction EXCEPT ![key] = FALSE],
              errs |-> IF st.singleAction[key]
                       THEN Append(st.errs, Invalid(path, value, MsgMultipleActions))
                       ELSE st.errs]
        ELSE [singleAction |-> st.singleAction @@ (key :> TRUE),
              errs |-> st.errs]

\* for i, action := range filter.Add / filter.Set
RECURSIVE headerLoop(_, _, _, _)
headerLoop(st, actions, k, path) ==
    IF k > Len(actions) THEN st
    ELSE headerLoop(headerActionStep(st, actions[k].Name, actions[k], path),
                    actions, k + 1, path)

\* for i, name := range filter.Remove
RECURSIVE removeLoop(_, _, _, _)
removeLoop(st, names, k, path) ==
    IF k > Len(names) THEN st
    ELSE removeLoop(headerActionStep(st, names[k], StringValue(names[k]), path),
                    names, k + 1, path)

\* mutant: the Set list is ranged over before the Add list
validateHTTPHeaderModifierSetFirst(filter, path) ==
    LET st0 == [singleAction |-> << >>, errs |-> << >>]
        st1 == headerLoop(st0, filter.Set, 1, Child(path, "set"))
        st2 == headerLoop(st1, filter.Add, 1, Child(path, "add"))
        st3 == removeLoop(st2, filter.Remove, 1, Child(path, "remove"))
    IN  st3.errs

validateHTTPHeaderModifier(filter, path) ==
    LET st0 == [singleAction |-> << >>, errs |-> << >>]
        st1 == headerLoop(st0, filter.Add, 1, Child(path, "add"))
        st2 == headerLoop(st1, filter.Set, 1, Child(path, "set"))
        st3 == removeLoop(st2, filter.Remove, 1, Child(path, "remove"))
    IN  st3.errs

-----------------------------------------------------------------------------
(* validateHTTPRouteFilters *)

MsgEitherNotBoth ==
    "may specify either httpRouteFilterRequestRedirect or httpRouteFilterRequestRewrite, but not both"

\* counts[filter.Type]++ over the filters, read as counts[t]
filterCount(filters, t) == Cardinality({k \in 1..Len(filters) : filters[k].Type = t})

\* the body of the loop for filter i (0-based)
filterErrs(filter, i, path) ==
    (IF filter.RequestHeaderModifier # Nil
     THEN validateHTTPHeaderModifier(filter.RequestHeaderModifier,
                                     Child(Index(path, i), "requestHeaderModifier"))
     ELSE <<>>)
    \o
    (IF filter.ResponseHeaderModifier # Nil
     THEN validateHTTPHeaderModifier(filter.ResponseHeaderModifier,
                                     Child(Index(path, i), "responseHeaderModifier"))
     ELSE <<>>)

\* mutant: one error for every pair of a redirect and a rewrite filter
redirectRewriteErrsPerPair(filters, path) ==
    [k \in 1..(filterCount(filters, "RequestRedirect") * filterCount(filters, "URLRewrite")) |->
        Invalid(Child(path, "filters"), FilterTypeValue("RequestRedirect"), MsgEitherNotBoth)]

\* the check after the loop
redirectRewriteErrs(filters, path) ==
    IF filterCount(filters, "RequestRedirect") > 0 /\ filterCount(filters, "URLRewrite") > 0
    THEN << Invalid(Child(path, "filters"), FilterTypeValue("RequestRedirect"),
                    MsgEitherNotBoth) >>
    ELSE <<>>

\* mutant: one singleAction map serves every header filter of the list
RECURSIVE filtersSharedMap(_, _, _, _)
filtersSharedMap(st, filters, k, path) ==
    IF k > Len(filters) THEN st
    ELSE LET from(s0, hf, p) ==
                 IF hf = Nil THEN s0
                 ELSE removeLoop(headerLoop(headerLoop(s0, hf.Add, 1, Child(p, "add")),
                                            hf.Set, 1, Child(p, "set")),
                                 hf.Remove, 1, Child(p, "remove"))
             st1 == from(st, filters[k].RequestHeaderModifier,
                         Child(Index(path, k - 1), "requestHeaderModifier"))
             st2 == from(st1, filters[k].ResponseHeaderModifier,
                         Child(Index(path, k - 1), "responseHeaderModifier"))
         IN  filtersSharedMap(st2, filters, k + 1, path)

validateHTTPRouteFiltersSharedMap(filters, matches, path) ==
    filtersSharedMap([singleAction |-> << >>, errs |-> << >>], filters, 1, path).errs
    \o redirectRewriteErrs(filters, path)

validateHTTPRouteFilters(filters, matches, path) ==
    Concat([k \in 1..Len(filters) |-> filterErrs(filters[k], k - 1, path)])
    \o redirectRewriteErrs(filters, path)

-----------------------------------------------------------------------------
(* ValidateParentRefs: the parent-reference collaborator *)

MsgParentRefUnique ==
    "sectionName or port must be unique when parentRefs includes 2 or more references to the same parent"

\* one error for every parent reference that repeats an earlier one
ValidateParentRefs(parentRefs, path) ==
    Concat([k \in 1..Len(parentRefs) |->
        IF \E j \in 1..(k - 1) : parentRefs[j] = parentRefs[k]
        THEN << Invalid(Index(Child(path, "parentRefs"), k - 1), parentRefs[k],
                        MsgParentRefUnique) >>
        ELSE <<>>])

-----------------------------------------------------------------------------
(* ValidateHTTPRouteSpec *)

\* mutant: the rule's own filters are checked together with the backend reference's
backendRefFiltersWithRule(rule, j) == rule.Filters \o rule.BackendRefs[j].Filters

\* the filters handed to validateHTTPRouteFilters for backend reference j (1-based)
backendRefFilters(rule, j) == rule.BackendRefs[j].Filters

\* the orders in which the counts maps of the rule's match blocks can be ranged over
MatchOrders(rule) ==
    {o \in [1..Len(rule.Matches) ->
                UNION {HeaderMatchOrders(rule.Matches[j].Headers) : j \in 1..Len(rule.Matches)}] :
        \A j \in 1..Len(rule.Matches) : o[j] \in HeaderMatchOrders(rule.Matches[j].Headers)}

\* errors appended for the rule's own filters
ruleFilterErrs(rule, i, path) ==
    validateHTTPRouteFilters(rule.Filters, rule.Matches, Index(Child(path, "rules"), i))

\* errors appended by the loop over rule.BackendRefs
backendRefErrs(rule, i, path) ==
    Concat([j \in 1..Len(rule.BackendRefs) |->
        validateHTTPRouteFilters(backendRefFilters(rule, j), rule.Matches,
            Index(Child(Index(Child(path, "rules"), i), "backendRefs"), j - 1))])

\* errors appended for match block j (1-based) of the rule
matchErrs(m, i, j, path, order) ==
    LET matchPath == Index(Child(Index(Child(path, "rules"), i), "matches"), j - 1)
    IN  IF Len(m.Headers) > 0
        THEN validateHTTPHeaderMatches(m.Headers, Child(matchPath, "headers"), order)
        ELSE <<>>

\* mutant: the match blocks are checked before the backend references
ruleErrsMatchesFirst(rule, i, path, orders) ==
    ruleFilterErrs(rule, i, path)
    \o Concat([j \in 1..Len(rule.Matches) |-> matchErrs(rule.Matches[j], i, j, path, orders[j])])
    \o backendRefErrs(rule, i, path)

\* one iteration of `for i, rule := range spec.Rules` (i 0-based)
ruleErrs(rule, i, path, orders) ==
    ruleFilterErrs(rule, i, path)
    \o backendRefErrs(rule, i, path)
    \o Concat([j \in 1..Len(rule.Matches) |-> matchErrs(rule.Matches[j], i, j, path, orders[j])])

SpecPath == NewPath("spec")

\* mutant: the loop over the rules ends at the first rule that has errors
moreRulesUntilError(spec, i, soFar) == i < Len(spec.Rules) /\ soFar = <<>>

\* whether the loop over the rules goes on after i rules
moreRules(spec, i, soFar) == i < Len(spec.Rules)

RuleStep ==
    /\ pc = "rules"
    /\ moreRules(route, idx, errs)
    /\ \E orders \in MatchOrders(route.Rules[idx + 1]) :
          errs' = errs \o ruleErrs(route.Rules[idx + 1], idx, SpecPath, orders)
    /\ idx' = idx + 1
    /\ UNCHANGED <<route, pc, prCalls, mode, prev, unitVars>>

\* the parent references and path handed to the collaborator
parentRefsCall(spec, path, i) ==
    [parentRefs |-> spec.ParentRefs, path |-> Child(path, "spec"), rulesDone |-> i]

\* mutant: the collaborator's errors are kept only when the rules had none
withParentRefErrsIfClean(soFar, call) ==
    IF soFar = <<>> THEN ValidateParentRefs(call.parentRefs, call.path) ELSE soFar

\* errs = append(errs, ValidateParentRefs(...)...)
withParentRefErrs(soFar, call) == soFar \o ValidateParentRefs(call.parentRefs, call.path)

ParentRefsStep ==
    /\ pc = "rules"
    /\ ~moreRules(route, idx, errs)
    /\ LET call == parentRefsCall(route, SpecPath, idx)
       IN  /\ prCalls' = Append(prCalls, call)
           /\ errs' = withParentRefErrs(errs, call)
    /\ pc' = "done"
    /\ UNCHANGED <<route, idx, mode, prev, unitVars>>

-----------------------------------------------------------------------------
(* The values the callers pass in *)

XA == <<"x", "-", "a">>
XAup == <<"X", "-", "A">>
XB == <<"x", "-", "b">>
A1 == <<"a", "1">>
Q1 == <<"q", "-", "1">>
Q1up == <<"Q", "-", "1">>
Q2 == <<"q", "-", "2">>

HeaderNames == {XA, XAup, XB, A1}
ModifierNames == {XA, XAup, XB}
Values == {"v1", "v2"}

HTTPHeader(n, v) == [Name |-> n, Value |-> v]
HTTPHeaderFilter(add, set, remove) == [Add |-> add, Set |-> set, Remove |-> remove]
ptrTo(v) == [val |-> v]

HeaderMatchPool == {HTTPHeader(n, v) : n \in HeaderNames, v \in Values}
HeaderActionPool == {HTTPHeader(n, v) : n \in ModifierNames, v \in Values}

HTTPRouteFilter(type) ==
    [Type |-> type, RequestHeaderModifier |-> Nil, ResponseHeaderModifier |-> Nil,
     RequestMirror |-> Nil, RequestRedirect |-> Nil, URLRewrite |-> Nil]

\* Path{Type: PrefixMatchHTTPPathModifier, ReplaceFullPath: "foo"}
PrefixModifierWithFullPath ==
    [Type |-> "ReplacePrefixMatch", ReplaceFullPath |-> ptrTo("foo"), ReplacePrefixMatch |-> Nil]
\* Path{Type: PrefixMatchHTTPPathModifier, ReplacePrefixMatch: "foo"}
PrefixModifierWithPrefix ==
    [Type |-> "ReplacePrefixMatch", ReplaceFullPath |-> Nil, ReplacePrefixMatch |-> ptrTo("foo")]

RedirectPlain ==
    [HTTPRouteFilter("RequestRedirect") EXCEPT !.RequestRedirect = [Path |-> Nil]]
RedirectMismatch ==
    [HTTPRouteFilter("RequestRedirect") EXCEPT
        !.RequestRedirect = [Path |-> PrefixModifierWithFullPath]]
RewritePrefix ==
    [HTTPRouteFilter("URLRewrite") EXCEPT !.URLRewrite = [Path |-> PrefixModifierWithPrefix]]
Mirror ==
    [HTTPRouteFilter("RequestMirror") EXCEPT !.RequestMirror = [BackendRef |-> "testService"]]
Extension == HTTPRouteFilter("ExtensionRef")

RequestModifier(hf) ==
    [HTTPRouteFilter("RequestHeaderModifier") EXCEPT !.RequestHeaderModifier = hf]
ResponseModifier(hf) ==
    [HTTPRouteFilter("ResponseHeaderModifier") EXCEPT !.ResponseHeaderModifier = hf]

AddXA == HTTPHeaderFilter(<<HTTPHeader(XA, "v1")>>, <<>>, <<>>)
SetXAup == HTTPHeaderFilter(<<>>, <<HTTPHeader(XAup, "v2")>>, <<>>)
AddSetXA == HTTPHeaderFilter(<<HTTPHeader(XA, "v1")>>, <<HTTPHeader(XAup, "v2")>>, <<>>)
AddTwiceXB == HTTPHeaderFilter(<<HTTPHeader(XB, "v1"), HTTPHeader(XB, "v2")>>, <<>>, <<XA>>)

\* filters handed to validateHTTPRouteFilters, one by one
FilterPool ==
    { RedirectPlain, RedirectMismatch, RewritePrefix, Mirror, Extension,
      RequestModifier(AddXA), RequestModifier(AddSetXA),
      ResponseModifier(SetXAup), ResponseModifier(AddTwiceXB),
      \* payloads that do not go with the Type
      [Mirror EXCEPT !.RequestHeaderModifier = AddSetXA],
      [RequestModifier(AddXA) EXCEPT !.ResponseHeaderModifier = SetXAup] }

HTTPRouteMatch(headers, queryParams) == [Headers |-> headers, QueryParams |-> queryParams]
HTTPBackendRef(filters) == [Name |-> "test", Filters |-> filters]
HTTPRouteRule(matches, filters, backendRefs) ==
    [Matches |-> matches, Filters |-> filters, BackendRefs |-> backendRefs]

HeadersTwoDuplicated ==
    <<HTTPHeader(XA, "v1"), HTTPHeader(XB, "v1"), HTTPHeader(XAup, "v2"), HTTPHeader(XB, "v2")>>
HeadersOneDuplicated == <<HTTPHeader(XA, "v1"), HTTPHeader(A1, "v1"), HTTPHeader(XAup, "v2")>>
HeadersDistinct == <<HTTPHeader(XA, "v1"), HTTPHeader(XB, "v1")>>
QueryParamsDuplicated == <<HTTPHeader(Q1, "v1"), HTTPHeader(Q2, "v1"), HTTPHeader(Q1, "v2")>>
QueryParamsOtherCase == <<HTTPHeader(Q1, "v1"), HTTPHeader(Q2, "v1"), HTTPHeader(Q1up, "v2")>>

EmptyRule == HTTPRouteRule(<<>>, <<>>, <<>>)
RuleRedirectMismatch == HTTPRouteRule(<<>>, <<RedirectMismatch>>, <<>>)
RuleRewritePrefix == HTTPRouteRule(<<>>, <<RewritePrefix>>, <<>>)
RuleRedirectBackendRewrite ==
    HTTPRouteRule(<<>>, <<RedirectPlain>>, <<HTTPBackendRef(<<RewritePrefix>>)>>)
RuleAllKinds ==
    HTTPRouteRule(<<HTTPRouteMatch(HeadersOneDuplicated, <<>>)>>,
                  <<RedirectPlain, RewritePrefix>>,
                  <<HTTPBackendRef(<<RequestModifier(AddSetXA)>>)>>)
RuleModifierPerList ==
    HTTPRouteRule(<<>>, <<RequestModifier(AddXA)>>,
                  <<HTTPBackendRef(<<RequestModifier(SetXAup)>>),
                    HTTPBackendRef(<<Mirror, ResponseModifier(AddTwiceXB)>>)>>)
RuleTwoHeadersDuplicated ==
    HTTPRouteRule(<<HTTPRouteMatch(HeadersTwoDuplicated, <<>>),
                    HTTPRouteMatch(<<>>, QueryParamsDuplicated)>>, <<>>, <<>>)
RuleQueryParams ==
    HTTPRouteRule(<<HTTPRouteMatch(HeadersDistinct, QueryParamsDuplicated),
                    HTTPRouteMatch(<<>>, QueryParamsOtherCase)>>, <<>>,
                  <<HTTPBackendRef(<<Mirror>>)>>)

\* the rules a route is made of
RulePool ==
    { EmptyRule, RuleRedirectMismatch, RuleRewritePrefix, RuleRedirectBackendRewrite,
      RuleAllKinds, RuleModifierPerList, RuleTwoHeadersDuplicated,
      RuleQueryParams }

ParentReference(name, section) == [ParentName |-> name, SectionName |-> section]

ParentRefsPool ==
    { <<>>,
      <<ParentReference("gw1", "http"), ParentReference("gw2", "http")>>,
      <<ParentReference("gw1", "http"), ParentReference("gw1", "http")>> }

NoRoute == [Rules |-> <<>>, ParentRefs |-> <<>>]

-----------------------------------------------------------------------------
(* The caller of ValidateHTTPRoute: one call, and then at most one more, on   *)
(* the same route or on the route with one more rule at the end               *)

Init ==
    /\ \E n \in 0..MaxRules : \E rules \in [1..n -> RulePool] : \E refs \in ParentRefsPool :
          route = [Rules |-> rules, ParentRefs |-> refs]
    /\ pc = "rules"
    /\ idx = 0
    /\ errs = <<>>
    /\ prCalls = <<>>
    /\ mode = "first"
    /\ prev = <<>>
    /\ input = Nil
    /\ output = <<>>
    /\ returned = FALSE

ValidateAgain ==
    /\ pc = "done"
    /\ mode = "first"
    /\ prev' = errs
    /\ mode' = "same"
    /\ pc' = "rules"
    /\ idx' = 0
    /\ errs' = <<>>
    /\ prCalls' = <<>>
    /\ UNCHANGED <<route, unitVars>>

ValidateExtended ==
    /\ pc = "done"
    /\ mode = "first"
    /\ \E r \in RulePool : route' = [route EXCEPT !.Rules = Append(@, r)]
    /\ prev' = errs
    /\ mode' = "extended"
    /\ pc' = "rules"
    /\ idx' = 0
    /\ errs' = <<>>
    /\ prCalls' = <<>>
    /\ UNCHANGED unitVars

Next == RuleStep \/ ParentRefsStep \/ ValidateAgain \/ ValidateExtended

Spec == Init /\ [][Next]_vars

-----------------------------------------------------------------------------
(* The helpers called directly *)

UnitInit ==
    /\ route = NoRoute
    /\ pc = "done"
    /\ idx = 0
    /\ errs = <<>>
    /\ prCalls = <<>>
    /\ mode = "first"
    /\ prev = <<>>
    /\ output = <<>>
    /\ returned = FALSE

HeadersPath == Child(Index(Child(Index(Child(SpecPath, "rules"), 0), "matches"), 0), "headers")
ModifierPath == Child(Index(Index(Child(SpecPath, "rules"), 0), 0), "requestHeaderModifier")
FiltersPath == Index(Child(SpecPath, "rules"), 0)

\* a list of at most MaxHeaderMatches header matches
InitHeaderMatches ==
    /\ UnitInit
    /\ \E n \in 0..MaxHeaderMatches : input \in [1..n -> HeaderMatchPool]

CallValidateHTTPHeaderMatches ==
    /\ ~returned
    /\ \E order \in HeaderMatchOrders(input) :
          output' = validateHTTPHeaderMatches(input, HeadersPath, order)
    /\ returned' = TRUE
    /\ UNCHANGED <<input, routeVars>>

SpecHeaderMatches == InitHeaderMatches /\ [][CallValidateHTTPHeaderMatches]_vars

\* a header filter with at most MaxActions actions over its three lists
InitHeaderModifier ==
    /\ UnitInit
    /\ \E na \in 0..MaxActions : \E ns \in 0..(MaxActions - na) :
       \E nr \in 0..(MaxActions - na - ns) :
       \E a \in [1..na -> HeaderActionPool] : \E s \in [1..ns -> HeaderActionPool] :
       \E r \in [1..nr -> ModifierNames] :
          input = HTTPHeaderFilter(a, s, r)

CallValidateHTTPHeaderModifier ==
    /\ ~returned
    /\ output' = validateHTTPHeaderModifier(input, ModifierPath)
    /\ returned' = TRUE
    /\ UNCHANGED <<input, routeVars>>

SpecHeaderModifier == InitHeaderModifier /\ [][CallValidateHTTPHeaderModifier]_vars

\* a list of at most MaxFilters filters
InitFilters ==
    /\ UnitInit
    /\ \E n \in 0..MaxFilters : input \in [1..n -> FilterPool]

CallValidateHTTPRouteFilters ==
    /\ ~returned
    /\ output' = validateHTTPRouteFilters(input, <<>>, FiltersPath)
    /\ returned' = TRUE
    /\ UNCHANGED <<input, routeVars>>

SpecFilters == InitFilters /\ [][CallValidateHTTPRouteFilters]_vars

-----------------------------------------------------------------------------
(* Properties *)

\* two bytes that are the lower- and upper-case form of one letter
CasePair(c, d) == \E k \in 1..Len(Lowers) : {c, d} = {Lowers[k], Uppers[k]}

\* two names that differ at most in letter case
EqualFold(a, b) ==
    /\ Len(a) = Len(b)
    /\ \A k \in 1..Len(a) : a[k] = b[k] \/ CasePair(a[k], b[k])

\* the positions of `names` whose name occurs at another position too, up to letter case
Repeated(names) ==
    {k \in 1..Len(names) : \E j \in 1..Len(names) : j # k /\ EqualFold(names[j], names[k])}

\* the number of distinct names, up to letter case, at the positions K of `names`
FoldClasses(names, K) ==
    Cardinality({ {j \in K : EqualFold(names[j], names[k])} : k \in K })

\* the number of entries of the error list that satisfy P
Count(list, P(_)) == Cardinality({e \in 1..Len(list) : P(list[e])})

NamesOf(list) == [k \in 1..Len(list) |-> list[k].Name]

\* C2: validateHTTPHeaderMatches returns one error for every header name that,
\* up to letter case, occurs more than once in the list, and nothing else; every
\* error is at the headers path and carries the canonical form of the name.
C2_HeaderMatchDuplicates ==
    returned =>
        LET names == NamesOf(input)
            dup == Repeated(names)
        IN  /\ Len(output) = FoldClasses(names, dup)
            /\ \A k \in dup :
                  LET isFor(e) == e.BadValue = StringValue(CanonicalHeaderKey(names[k]))
                  IN  Count(output, isFor) = 1
            /\ \A e \in 1..Len(output) :
                  /\ output[e].Field = HeadersPath
                  /\ \E k \in dup : output[e].BadValue = StringValue(CanonicalHeaderKey(names[k]))

\* x-a, x-b, X-A: the one error names X-A, and x-b is not reported
C2_Witness ==
    /\ returned
    /\ Len(input) = 3
    /\ NamesOf(input) = <<XA, XB, XAup>>
    /\ output = << Invalid(HeadersPath, StringValue(<<"X", "-", "A">>), MsgHeaderTwice) >>

\* the header names of a header filter's Add, Set and Remove lists, in that order
ActionNames(filter) == NamesOf(filter.Add) \o NamesOf(filter.Set) \o filter.Remove

\* C3: validateHTTPHeaderModifier returns as many errors as there are header
\* names that, up to letter case, occur two or more times over Add, Set and
\* Remove together; the values play no part.
C3_ModifierErrorCount ==
    returned =>
        LET names == ActionNames(input)
        IN  Len(output) = FoldClasses(names, Repeated(names))

\* one name in all three lists, in both spellings: three occurrences, one error
C3_Witness ==
    /\ returned
    /\ Len(input.Add) = 1 /\ Len(input.Set) = 1 /\ Len(input.Remove) = 1
    /\ input.Add[1].Name = XA /\ input.Set[1].Name = XAup /\ input.Remove[1] = XA
    /\ input.Add[1].Value # input.Set[1].Value
    /\ Len(output) = 1

IsRedirectRewriteErr(e) == e.Field = Child(FiltersPath, "filters")

\* C4: validateHTTPRouteFilters returns one error at <path>.filters when the
\* list holds a RequestRedirect and a URLRewrite filter, however many of each,
\* and no error at that path otherwise.
C4_RedirectRewriteOnce ==
    returned =>
        Count(output, IsRedirectRewriteErr) =
            IF /\ \E k \in 1..Len(input) : input[k].Type = "RequestRedirect"
               /\ \E k \in 1..Len(input) : input[k].Type = "URLRewrite"
            THEN 1 ELSE 0

\* two redirects and a rewrite: one error
C4_Witness ==
    /\ returned
    /\ Len(input) = 3
    /\ filterCount(input, "RequestRedirect") = 2
    /\ filterCount(input, "URLRewrite") = 1
    /\ Count(output, IsRedirectRewriteErr) = 1

-----------------------------------------------------------------------------
(* Properties of ValidateHTTPRoute *)

RulePath(i) == Index(Child(SpecPath, "rules"), i)
BackendRefPath(i, j) == Index(Child(RulePath(i), "backendRefs"), j)
MatchPath(i, j) == Index(Child(RulePath(i), "matches"), j)

HasPrefix(p, q) == Len(q) <= Len(p) /\ SubSeq(p, 1, Len(q)) = q

Suffix(list, n) == SubSeq(list, Len(list) - n + 1, Len(list))

\* C1: for every match block the result has one error at
\* spec.rules[i].matches[j].queryParams for every query-parameter name that
\* occurs more than once in the block, compared as given, carrying that name.
C1_QueryParamDuplicates ==
    pc = "done" =>
        \A i \in 1..Len(route.Rules) : \A j \in 1..Len(route.Rules[i].Matches) :
            LET params == route.Rules[i].Matches[j].QueryParams
            IN  \A k \in 1..Len(params) :
                  LET isFor(e) ==
                        /\ e.Field = Child(MatchPath(i - 1, j - 1), "queryParams")
                        /\ e.BadValue = StringValue(params[k].Name)
                      times == Cardinality({l \in 1..Len(params) :
                                              params[l].Name = params[k].Name})
                  IN  Count(errs, isFor) = IF times > 1 THEN 1 ELSE 0

\* C5: a second call on the same route returns the list the first call returned.
C5_Idempotent ==
    (pc = "done" /\ mode = "same") => errs = prev

\* C6: a route of one rule with a RequestRedirect filter whose prefix-match path
\* modifier sets ReplaceFullPath has 2 errors, and one with a URLRewrite filter
\* whose prefix-match path modifier sets ReplacePrefixMatch has 1 error.
C6_PathModifierErrors ==
    (pc = "done" /\ route.ParentRefs = <<>>) =>
        /\ route.Rules = <<RuleRedirectMismatch>> => Len(errs) = 2
        /\ route.Rules = <<RuleRewritePrefix>> => Len(errs) = 1

\* the filter lists of the route, each with the path it is validated at
FilterLists ==
    {[filters |-> route.Rules[i].Filters, path |-> RulePath(i - 1)] :
        i \in 1..Len(route.Rules)}
    \cup
    UNION {{[filters |-> route.Rules[i].BackendRefs[j].Filters,
             path |-> BackendRefPath(i - 1, j - 1)] :
                j \in 1..Len(route.Rules[i].BackendRefs)} : i \in 1..Len(route.Rules)}

HasType(filters, t) == \E k \in 1..Len(filters) : filters[k].Type = t

\* the number of errors the result has below `path` is the number of names
\* the header filter `hf` acts on more than once
OwnConflictsOnly(hf, path) ==
    LET isBelow(e) == HasPrefix(e.Field, path)
    IN  hf # Nil =>
          Count(errs, isBelow) = FoldClasses(ActionNames(hf), Repeated(ActionNames(hf)))

\* C7: every filter list of a rule, its own and each backend reference's, is
\* validated by itself: there is an error at <list>.filters exactly when that
\* list holds a redirect and a rewrite filter, and a header filter's errors
\* are those of the names it acts on more than once itself.
C7_ListsIndependent ==
    pc = "done" =>
        \A l \in FilterLists :
            /\ LET isAt(e) == e.Field = Child(l.path, "filters")
               IN  Count(errs, isAt) =
                     IF HasType(l.filters, "RequestRedirect") /\ HasType(l.filters, "URLRewrite")
                     THEN 1 ELSE 0
            /\ \A k \in 1..Len(l.filters) :
                 /\ OwnConflictsOnly(l.filters[k].RequestHeaderModifier,
                                     Child(Index(l.path, k - 1), "requestHeaderModifier"))
                 /\ OwnConflictsOnly(l.filters[k].ResponseHeaderModifier,
                                     Child(Index(l.path, k - 1), "responseHeaderModifier"))

\* a redirect on the rule and a rewrite on its backend reference, then x-a added
\* on the rule and X-A set on the backend reference: only the header that one
\* filter adds twice is reported
C7_Witness ==
    /\ pc = "done"
    /\ route.Rules = <<RuleRedirectBackendRewrite, RuleModifierPerList>>
    /\ route.ParentRefs = <<>>
    /\ Len(errs) = 1
    /\ errs[1].Field = Child(Child(Index(BackendRefPath(1, 1), 1), "responseHeaderModifier"), "add")

\* C8: ValidateParentRefs is called once in every call, after the last rule,
\* with the spec's parent references, and what it returns is the end of the
\* returned list.
C8_ParentRefsOnceAtEnd ==
    /\ pc = "rules" => prCalls = <<>>
    /\ pc = "done" =>
        /\ Len(prCalls) = 1
        /\ prCalls[1].parentRefs = route.ParentRefs
        /\ prCalls[1].rulesDone = Len(route.Rules)
        /\ LET got == ValidateParentRefs(prCalls[1].parentRefs, prCalls[1].path)
           IN  /\ Len(errs) >= Len(got)
               /\ Suffix(errs, Len(got)) = got

\* errors from the rules, and then the error for the repeated parent reference
C8_Witness ==
    /\ pc = "done"
    /\ Len(route.Rules) = 2
    /\ Len(route.ParentRefs) = 2
    /\ route.ParentRefs[1] = route.ParentRefs[2]
    /\ Len(errs) > 1
    /\ errs[Len(errs)].Field = Index(Child(Child(SpecPath, "spec"), "parentRefs"), 1)
    /\ errs[1].Field = Child(RulePath(0), "filters")


\* what the checks of rule `rule`, the i-th (0-based), can each return, in the
\* order filters, backend references, match blocks; a match block's check can
\* return its errors in any order of the header names
RuleChecks(rule, i) ==
    << {validateHTTPRouteFilters(rule.Filters, rule.Matches, RulePath(i))} >>
    \o [j \in 1..Len(rule.BackendRefs) |->
          {validateHTTPRouteFilters(rule.BackendRefs[j].Filters, rule.Matches,
                                    BackendRefPath(i, j - 1))}]
    \o [j \in 1..Len(rule.Matches) |->
          LET headers == rule.Matches[j].Headers
          IN  IF headers = <<>> THEN {<<>>}
              ELSE {validateHTTPHeaderMatches(headers, Child(MatchPath(i, j - 1), "headers"), o) :
                        o \in HeaderMatchOrders(headers)}]

RulesChecks(rules) == Concat([i \in 1..Len(rules) |-> RuleChecks(rules[i], i - 1)])

ParentRefsCheck(spec) == {ValidateParentRefs(spec.ParentRefs, Child(SpecPath, "spec"))}

\* the number of errors of a check: the same whatever the order
ErrorsOf(check) == Len(CHOOSE r \in check : TRUE)

RECURSIVE TotalErrors(_)
TotalErrors(checks) ==
    IF checks = <<>> THEN 0 ELSE ErrorsOf(Head(checks)) + TotalErrors(Tail(checks))

\* `list` is what the checks return, one after the other
RECURSIVE IsConcatOf(_, _)
IsConcatOf(list, checks) ==
    IF checks = <<>> THEN list = <<>>
    ELSE LET n == ErrorsOf(Head(checks))
         IN  /\ Len(list) >= n
             /\ SubSeq(list, 1, n) \in Head(checks)
             /\ IsConcatOf(SubSeq(list, n + 1, Len(list)), Tail(checks))

\* C9: the returned list is, rule after rule, the errors of the rule's filters,
\* of each backend reference's filters and of each match block, and then the
\* collaborator's errors; its length is the sum of the errors of all checks.
C9_AllChecksInOrder ==
    pc = "done" =>
        LET checks == RulesChecks(route.Rules) \o <<ParentRefsCheck(route)>>
        IN  /\ IsConcatOf(errs, checks)
            /\ Len(errs) = TotalErrors(checks)

\* a rule with errors in its filters, its backend reference and its match block,
\* then a rule with two errors in a match block, then the collaborator's error
C9_Witness ==
    /\ pc = "done"
    /\ route.Rules = <<RuleAllKinds, RuleTwoHeadersDuplicated>>
    /\ Len(errs) = 6
    /\ errs[1].Field = Child(RulePath(0), "filters")
    /\ errs[2].Field = Child(Child(Index(BackendRefPath(0, 0), 0), "requestHeaderModifier"), "set")
    /\ errs[3].Field = Child(MatchPath(0, 0), "headers")
    /\ errs[4].Field = Child(MatchPath(1, 0), "headers")
    /\ errs[5].Field = Child(MatchPath(1, 0), "headers")
    /\ errs[6].Field = Index(Child(Child(SpecPath, "spec"), "parentRefs"), 1)

\* two lists with the same errors, each as often
SameErrors(a, b) ==
    /\ Len(a) = Len(b)
    /\ \A k \in 1..Len(a) :
          LET isIt(e) == e = a[k] IN Count(a, isIt) = Count(b, isIt)

\* in the second call, on the route with one more rule: the position (0-based)
\* of the new rule and what its checks can return
NewRuleAt == Len(route.Rules) - 1
NewRuleChecks == RuleChecks(route.Rules[Len(route.Rules)], NewRuleAt)

\* C10 as stated: the call on the route with the rule r added returns the errors
\* of the call without r, and after all of them the errors of r.
C10_AppendedAfterAll ==
    (pc = "done" /\ mode = "extended") =>
        /\ Len(errs) >= Len(prev)
        /\ SameErrors(SubSeq(errs, 1, Len(prev)), prev)
        /\ IsConcatOf(SubSeq(errs, Len(prev) + 1, Len(errs)), NewRuleChecks)

\* C10 as the code has it: the call on the route with the rule r added returns
\* the errors the call without r returned for the rules, then the errors of r,
\* and the collaborator's errors stay at the end of both lists.
C10_AppendedAfterRules ==
    (pc = "done" /\ mode = "extended") =>
        LET tail == ValidateParentRefs(route.ParentRefs, Child(SpecPath, "spec"))
            n == Len(prev) - Len(tail)
        IN  /\ n >= 0
            /\ Len(errs) >= Len(prev)
            /\ Suffix(prev, Len(tail)) = tail
            /\ Suffix(errs, Len(tail)) = tail
            /\ SameErrors(SubSeq(errs, 1, n), SubSeq(prev, 1, n))
            /\ IsConcatOf(SubSeq(errs, n + 1, Len(errs) - Len(tail)), NewRuleChecks)

\* the first rules have errors, the added rule has errors, and so have the
\* parent references: the added rule's errors are in between
C10_Witness ==
    /\ pc = "done"
    /\ mode = "extended"
    /\ Len(prev) = 2
    /\ Len(errs) = 5
    /\ route.Rules[Len(route.Rules)] = RuleAllKinds
    /\ errs[1] = prev[1]
    /\ HasPrefix(errs[1].Field, RulePath(0))
    /\ \A k \in 2..4 : HasPrefix(errs[k].Field, RulePath(NewRuleAt))
    /\ errs[5] = prev[2]
    /\ errs[5].Field = Index(Child(Child(SpecPath, "spec"), "parentRefs"), 1)

-----------------------------------------------------------------------------
(* Properties of the order and the scope of the header actions *)

\* the actions of a header filter in the order Add, Set, Remove, each with its
\* header name, the list it stands in and the entry itself
ActionEntries(filter) ==
    [k \in 1..Len(filter.Add) |->
        [name |-> filter.Add[k].Name, list |-> "add", entry |-> filter.Add[k]]]
    \o [k \in 1..Len(filter.Set) |->
        [name |-> filter.Set[k].Name, list |-> "set", entry |-> filter.Set[k]]]
    \o [k \in 1..Len(filter.Remove) |->
        [name |-> filter.Remove[k], list |-> "remove", entry |-> StringValue(filter.Remove[k])]]

\* the positions that hold the second occurrence of their name, up to letter case
SecondOccurrences(entries) ==
    {k \in 1..Len(entries) :
        Cardinality({j \in 1..(k - 1) : EqualFold(entries[j].name, entries[k].name)}) = 1}

\* C11: validateHTTPHeaderModifier ranges over Add, Set and Remove in that order
\* and returns, in that order, one error for every entry that is the second
\* occurrence of its lower-cased name, at the path of the entry's list and with
\* the entry as value; first, third and later occurrences give nothing.
C11_ErrorAtSecondOccurrence ==
    returned =>
        LET entries == ActionEntries(input)
            seconds == SecondOccurrences(entries)
        IN  /\ Len(output) = Cardinality(seconds)
            /\ \A k \in seconds :
                  output[Cardinality({j \in seconds : j <= k})] =
                      Invalid(Child(ModifierPath, entries[k].list), entries[k].entry,
                              MsgMultipleActions)

\* x-a added, X-A set, x-a removed, x-a removed again: the one error is at set
C11_Witness ==
    /\ returned
    /\ NamesOf(input.Add) = <<XA>>
    /\ NamesOf(input.Set) = <<XAup>>
    /\ input.Remove = <<XA, XA>>
    /\ output = << Invalid(Child(ModifierPath, "set"), input.Set[1], MsgMultipleActions) >>


\* the number of names the header filter `hf` acts on more than once
Conflicts(hf) ==
    IF hf = Nil THEN 0 ELSE FoldClasses(ActionNames(hf), Repeated(ActionNames(hf)))

\* C12: validateHTTPRouteFilters hands a filter to the header-action check
\* when its Type is RequestHeaderModifier or ResponseHeaderModifier, once, with
\* the payload of that Type; a filter of any other Type has no header-action
\* error, whatever payloads it carries.
C12_DelegatesByType ==
    returned =>
        \A k \in 1..Len(input) :
            LET isBelow(e) == HasPrefix(e.Field, Index(FiltersPath, k - 1))
            IN  Count(output, isBelow) =
                  IF input[k].Type = "RequestHeaderModifier"
                  THEN Conflicts(input[k].RequestHeaderModifier)
                  ELSE IF input[k].Type = "ResponseHeaderModifier"
                  THEN Conflicts(input[k].ResponseHeaderModifier)
                  ELSE 0

\* C13: every header filter is checked with a singleAction map of its own: the
\* errors below a request or response header modifier are those of the names
\* that this one payload acts on more than once.
C13_FreshMapPerPayload ==
    returned =>
        \A k \in 1..Len(input) :
            LET isRequest(e) ==
                    HasPrefix(e.Field, Child(Index(FiltersPath, k - 1), "requestHeaderModifier"))
                isResponse(e) ==
                    HasPrefix(e.Field, Child(Index(FiltersPath, k - 1), "responseHeaderModifier"))
            IN  /\ Count(output, isRequest) = Conflicts(input[k].RequestHeaderModifier)
                /\ Count(output, isResponse) = Conflicts(input[k].ResponseHeaderModifier)

\* x-a added by one filter, X-A set by the next, and both again in the request
\* and the response modifier of a third: no error
C13_Witness ==
    /\ returned
    /\ input = << RequestModifier(AddXA), ResponseModifier(SetXAup),
                  [RequestModifier(AddXA) EXCEPT !.ResponseHeaderModifier = SetXAup] >>
    /\ output = <<>>

====
